---------------------------- MODULE Spec2Model ----------------------------
(***************************************************************************)
(* A model of three pieces of subctl:                                      *)
(*   - pkg/deploy: Submariner, populateSubmarinerSpec and the two string   *)
(*     helpers getCustomCoreDNSParams and removeSchemaPrefix;              *)
(*   - pkg/cloud/cleanup: GenericCluster;                                  *)
(*   - the generated clientset for the Broker resource.                    *)
(* Go strings that the code takes apart are sequences of one-character     *)
(* strings; strings the code only copies are TLA+ strings.                 *)
(***************************************************************************)
EXTENDS Integers, Sequences, FiniteSets, TLC

VARIABLES
    helperPc,       \* which helper has been applied to helperArg
    helperArg,      \* the string passed to the helper
    helperRet       \* what the helper returned

helperVars == <<helperPc, helperArg, helperRet>>

VARIABLES
    options,        \* Submariner's arguments
    brokerInfo,
    brokerSecret,
    netconfig,
    repositoryInfo,
    pc,             \* where Submariner is: "start", "populate", "done" ("idle": not running)
    pskSecret,      \* Submariner's local: the secret secret.Ensure returned
    submarinerSpec, \* Submariner's local: the spec populateSubmarinerSpec built
    ret,            \* Submariner's return value
    calls,          \* the calls Submariner made to secret.Ensure and submarinercr.Ensure
    reports,        \* the calls Submariner made to the status reporter
    cluster         \* the cluster: its PSK secret and its Submariner resource

deployArgs == <<options, brokerInfo, brokerSecret, netconfig, repositoryInfo>>

deployVars == <<deployArgs, pc, pskSecret, submarinerSpec, ret, calls, reports, cluster>>

VARIABLES
    clusterInfo,    \* GenericCluster's argument
    cleanupPc,      \* where GenericCluster is: "start", "ran", "done" ("idle": not running)
    cleanupErr,     \* GenericCluster's local err
    cleanupRet,     \* GenericCluster's return value
    statusLog,      \* every call on the status reporter, in order, with who made it
    cleanupCalls    \* what each call of gwDeployer.Cleanup returned

cleanupVars == <<clusterInfo, cleanupPc, cleanupErr, cleanupRet, statusLog, cleanupCalls>>

VARIABLES
    brokersNs,      \* the ns field of the brokers client
    requests        \* the requests the client has issued, each with the call that issued it

brokerVars == <<brokersNs, requests>>

vars == <<helperVars, deployVars, cleanupVars, brokerVars>>

----------------------------------------------------------------------------
(* Bounds of the model. *)

\* longest string passed to a helper
MaxLen == 6

\* most calls the code run by RunOnCluster makes on the status reporter
MaxCalleeReports == 2

\* most calls made on one brokers client
MaxRequests == 2

\* the characters strings are made of: the two separators and two others
Alphabet == {":", "/", "a", "b"}

Strs == UNION {[1..n -> Alphabet] : n \in 0..MaxLen}

----------------------------------------------------------------------------
(* Go's strings package, as the helpers use it. *)

\* s[from:] for a 0-based byte offset
SliceFrom(s, from) == SubSeq(s, from + 1, Len(s))

\* s[:to] for a 0-based byte offset
SliceTo(s, to) == SubSeq(s, 1, to)

\* strings.HasPrefix(s[at:], sep)
HasPrefixAt(s, at, sep) ==
    /\ at + Len(sep) <= Len(s)
    /\ \A k \in 1..Len(sep) : s[at + k] = sep[k]

\* strings.Index: the 0-based offset of the first occurrence of sep, or -1
Index(s, sep) ==
    LET hits == {i \in 0..Len(s) : HasPrefixAt(s, i, sep)}
    IN  IF hits = {} THEN -1
        ELSE CHOOSE i \in hits : \A j \in hits : i <= j

\* strings.Split for a non-empty separator: cut at every occurrence
RECURSIVE Split(_, _)
Split(s, sep) ==
    LET m == Index(s, sep)
    IN  IF m < 0 THEN <<s>>
        ELSE <<SliceTo(s, m)>> \o Split(SliceFrom(s, m + Len(sep)), sep)

----------------------------------------------------------------------------
(* pkg/deploy: the two string helpers. *)

SchemaSeparator == <<":", "/", "/">>

Slash == <<"/">>

\* a slip: the prefix is cut one byte short, leaving the last "/"
removeSchemaPrefixShort(brokerURL) ==
    LET idx == Index(brokerURL, SchemaSeparator)
    IN  IF idx >= 0 THEN SliceFrom(brokerURL, idx + 2) ELSE brokerURL

\* a slip: any "//" is taken for the schema separator
removeSchemaPrefixAnySlashes(brokerURL) ==
    LET idx == Index(brokerURL, <<"/", "/">>)
    IN  IF idx >= 0 THEN SliceFrom(brokerURL, idx + 2) ELSE brokerURL

removeSchemaPrefix(brokerURL) ==
    LET idx == Index(brokerURL, SchemaSeparator)
    IN  IF idx >= 0 THEN SliceFrom(brokerURL, idx + 3) ELSE brokerURL

\* a slip: the two results are assigned the wrong way round
getCustomCoreDNSParamsSwapped(corednsCustomConfigMap) ==
    LET paramList == Split(corednsCustomConfigMap, Slash)
    IN  IF corednsCustomConfigMap # <<>> /\ Len(paramList) > 1
        THEN [namespace |-> paramList[2], name |-> paramList[1]]
        ELSE [namespace |-> <<>>, name |-> corednsCustomConfigMap]

\* a slip: the name is not defaulted to the whole input
getCustomCoreDNSParamsNoDefault(corednsCustomConfigMap) ==
    LET paramList == Split(corednsCustomConfigMap, Slash)
    IN  IF corednsCustomConfigMap # <<>> /\ Len(paramList) > 1
        THEN [namespace |-> paramList[1], name |-> paramList[2]]
        ELSE [namespace |-> <<>>, name |-> <<>>]

\* a slip: the input is cut at the first "/" only, as strings.SplitN(s, "/", 2) would
getCustomCoreDNSParamsSplitN(corednsCustomConfigMap) ==
    LET m == Index(corednsCustomConfigMap, Slash)
    IN  IF m >= 0
        THEN [namespace |-> SliceTo(corednsCustomConfigMap, m),
              name |-> SliceFrom(corednsCustomConfigMap, m + 1)]
        ELSE [namespace |-> <<>>, name |-> corednsCustomConfigMap]

getCustomCoreDNSParams(corednsCustomConfigMap) ==
    IF corednsCustomConfigMap # <<>>
    THEN LET paramList == Split(corednsCustomConfigMap, Slash)
         IN  IF Len(paramList) > 1
             THEN [namespace |-> paramList[1], name |-> paramList[2]]
             ELSE [namespace |-> <<>>, name |-> corednsCustomConfigMap]
    ELSE [namespace |-> <<>>, name |-> <<>>]

----------------------------------------------------------------------------
(* The state of a part of the model that a specification does not run. *)

CleanupIdle ==
    /\ clusterInfo = [none |-> TRUE]
    /\ cleanupPc = "idle"
    /\ cleanupErr = [pending |-> TRUE]
    /\ cleanupRet = [pending |-> TRUE]
    /\ statusLog = <<>>
    /\ cleanupCalls = <<>>

BrokerIdle ==
    /\ brokersNs = ""
    /\ requests = <<>>

HelperIdle ==
    /\ helperPc = "idle"
    /\ helperArg = <<>>
    /\ helperRet = [none |-> TRUE]

----------------------------------------------------------------------------
(* Go values the model needs: errors, slices and pointers that may be nil. *)

NoError == [isNil |-> TRUE]

NewError(text) == [isNil |-> FALSE, msg |-> text]

\* the errors a call to the API server may come back with
ApiErrors == {NewError("forbidden"), NewError("timeout")}

NilSlice == [isNil |-> TRUE, elems |-> <<>>]

MakeSlice(elems) == [isNil |-> FALSE, elems |-> elems]

NilPointer == [isNil |-> TRUE]

\* reporter.Interface.Error: nil for a nil error, else the error wrapped with the message
StatusError(err, message) ==
    IF err.isNil THEN NoError
    ELSE [isNil |-> FALSE, msg |-> message, cause |-> err]

\* the call status.Error(err, message), added to the log of reporter calls
ReportError(log, err, message) ==
    Append(log, [method |-> "Error", err |-> err, message |-> message])

\* base64.StdEncoding.EncodeToString, kept as an uninterpreted injection
EncodeToString(data) == [base64 |-> data]

----------------------------------------------------------------------------
(* pkg/deploy: the arguments of Submariner. *)

\* constants.OperatorNamespace
OperatorNamespace == "submariner-operator"

BoolFields == {"PreferredServer", "ForceUDPEncaps", "NATTraversal", "IPSecDebug",
               "SubmarinerDebug", "AirGappedDeployment", "LoadBalancerEnabled",
               "HealthCheckEnabled", "BrokerK8sInsecure"}

NumberFields == {"NATTPort", "HealthCheckInterval", "HealthCheckMaxPacketLossCount"}

StringFields == {"ClusterID", "CableDriver", "Repository", "ImageVersion",
                 "ServiceCIDR", "ClusterCIDR"}

DefaultOptions ==
    [PreferredServer |-> FALSE, ForceUDPEncaps |-> FALSE, NATTraversal |-> FALSE,
     IPSecDebug |-> FALSE, SubmarinerDebug |-> FALSE, AirGappedDeployment |-> FALSE,
     LoadBalancerEnabled |-> FALSE, HealthCheckEnabled |-> FALSE,
     BrokerK8sInsecure |-> FALSE,
     NATTPort |-> 0, HealthCheckInterval |-> 0, HealthCheckMaxPacketLossCount |-> 0,
     ClusterID |-> "", CableDriver |-> "", CoreDNSCustomConfigMap |-> <<>>,
     Repository |-> "", ImageVersion |-> "", ServiceCIDR |-> "", ClusterCIDR |-> "",
     CustomDomains |-> NilSlice]

\* DefaultOptions with the fields of f set as f says
OptionsWith(f) ==
    [k \in DOMAIN DefaultOptions |-> IF k \in DOMAIN f THEN f[k] ELSE DefaultOptions[k]]

\* the values of --coredns-custom-configmap tried
ConfigMapRefs == {<<>>, <<"a">>, <<"/">>, <<"a", "/", "b">>, <<"a", "/">>, <<"/", "b">>,
                  <<"a", "/", "b", "/", "a">>}

\* the values of --custom-domains tried: nil, empty but not nil, one and two domains
DomainLists == {NilSlice, MakeSlice(<<>>), MakeSlice(<<"x.local">>),
                MakeSlice(<<"x.local", "y.local">>)}

\* Each family varies one group of fields in every combination and leaves the
\* others at their zero values.
OptionsSet ==
    {OptionsWith(f) : f \in [BoolFields -> BOOLEAN]}
    \cup {OptionsWith(f) : f \in [NumberFields -> {0, 1, 4500}]}
    \cup {OptionsWith(f) : f \in [StringFields -> {"", "x"}]}
    \cup {OptionsWith([CoreDNSCustomConfigMap |-> c, CustomDomains |-> d]) :
            c \in ConfigMapRefs, d \in DomainLists}

BrokerURLs == {<<>>, <<"b">>, <<"a", ":", "/", "/", "b">>,
               <<"a", ":", "/", "/", "b", ":", "/", "/", "a">>}

SecretNames == {"submariner-ipsec-psk", "submariner-ipsec-psk-2"}

BrokerInfos ==
    [BrokerURL : BrokerURLs,
     IPSecPSK : [Name : {"submariner-ipsec-psk"}, Data : [psk : {"key"}]],
     ServiceDiscovery : BOOLEAN]

BrokerSecrets ==
    [Name : {"broker-token-1", "broker-token-2"},
     Data : [cacrt : {"ca"}, namespace : {"submariner-k8s-broker"}, token : {"tok"}]]

NetConfigs == [GlobalCIDR : {"", "242.0.0.0/16"}]

RepositoryInfos == [Name : {"quay.io/submariner"}, Version : {"0.14.0"},
                    Overrides : {"none"}]

\* what the cluster holds before Submariner runs
Clusters ==
    [pskSecret : {NilPointer},
     submariner : {NilPointer, [isNil |-> FALSE, Spec |-> [ClusterID |-> "previous"]]}]

----------------------------------------------------------------------------
(* pkg/deploy: populateSubmarinerSpec. *)

\* the composite literal
SubmarinerSpecLiteral(opts, info, bSecret, pSecret, repoInfo) ==
    [Repository               |-> repoInfo.Name,
     Version                  |-> repoInfo.Version,
     CeIPSecNATTPort          |-> opts.NATTPort,
     CeIPSecDebug             |-> opts.IPSecDebug,
     CeIPSecForceUDPEncaps    |-> opts.ForceUDPEncaps,
     CeIPSecPreferredServer   |-> opts.PreferredServer,
     CeIPSecPSK               |-> EncodeToString(info.IPSecPSK.Data.psk),
     CeIPSecPSKSecret         |-> pSecret.Name,
     BrokerK8sCA              |-> EncodeToString(bSecret.Data.cacrt),
     BrokerK8sRemoteNamespace |-> bSecret.Data.namespace,
     BrokerK8sApiServerToken  |-> bSecret.Data.token,
     BrokerK8sApiServer       |-> removeSchemaPrefix(info.BrokerURL),
     BrokerK8sSecret          |-> bSecret.Name,
     BrokerK8sInsecure        |-> opts.BrokerK8sInsecure,
     Broker                   |-> "k8s",
     NatEnabled               |-> opts.NATTraversal,
     Debug                    |-> opts.SubmarinerDebug,
     ClusterID                |-> opts.ClusterID,
     ServiceCIDR              |-> opts.ServiceCIDR,
     ClusterCIDR              |-> opts.ClusterCIDR,
     Namespace                |-> OperatorNamespace,
     CableDriver              |-> opts.CableDriver,
     ServiceDiscoveryEnabled  |-> info.ServiceDiscovery,
     ImageOverrides           |-> repoInfo.Overrides,
     AirGappedDeployment      |-> opts.AirGappedDeployment,
     LoadBalancerEnabled      |-> opts.LoadBalancerEnabled,
     ConnectionHealthCheck    |->
         [Enabled            |-> opts.HealthCheckEnabled,
          IntervalSeconds    |-> opts.HealthCheckInterval,
          MaxPacketLossCount |-> opts.HealthCheckMaxPacketLossCount],
     \* not named in the literal: the zero values
     GlobalCIDR               |-> "",
     CoreDNSCustomConfig      |-> NilPointer,
     CustomDomains            |-> NilSlice]

\* the three optional fields, set after the literal
OptionalFields(spec, opts, nconfig) ==
    LET params == getCustomCoreDNSParams(opts.CoreDNSCustomConfigMap)
    IN  [spec EXCEPT
           !.GlobalCIDR = IF nconfig.GlobalCIDR # "" THEN nconfig.GlobalCIDR ELSE @,
           !.CoreDNSCustomConfig =
               IF opts.CoreDNSCustomConfigMap # <<>>
               THEN [isNil |-> FALSE, ConfigMapName |-> params.name,
                     Namespace |-> params.namespace]
               ELSE @,
           !.CustomDomains =
               IF Len(opts.CustomDomains.elems) > 0 THEN opts.CustomDomains ELSE @]

\* a slip: two debug flags of the literal are crossed
populateSubmarinerSpecCrossed(opts, info, bSecret, pSecret, nconfig, repoInfo) ==
    LET spec == SubmarinerSpecLiteral(opts, info, bSecret, pSecret, repoInfo)
    IN  OptionalFields([spec EXCEPT !.CeIPSecDebug = opts.SubmarinerDebug,
                                    !.Debug = opts.IPSecDebug], opts, nconfig)

\* a slip: the custom domains are copied without the length test
populateSubmarinerSpecUnguarded(opts, info, bSecret, pSecret, nconfig, repoInfo) ==
    LET spec == SubmarinerSpecLiteral(opts, info, bSecret, pSecret, repoInfo)
    IN  [OptionalFields(spec, opts, nconfig) EXCEPT !.CustomDomains = opts.CustomDomains]

populateSubmarinerSpec(opts, info, bSecret, pSecret, nconfig, repoInfo) ==
    OptionalFields(SubmarinerSpecLiteral(opts, info, bSecret, pSecret, repoInfo),
                   opts, nconfig)

----------------------------------------------------------------------------
(* pkg/secret and pkg/submarinercr, as Submariner sees them. *)

\* secret.Ensure: the secret is in the cluster and returned, or an error and no secret
SecretEnsureResults(c, psk) ==
    {[secret |-> [isNil |-> FALSE, Name |-> n, Data |-> psk.Data],
      err |-> NoError,
      cluster |-> [c EXCEPT !.pskSecret = [isNil |-> FALSE, Name |-> n, Data |-> psk.Data]]]
        : n \in SecretNames}
    \cup {[secret |-> NilPointer, err |-> e, cluster |-> c] : e \in ApiErrors}

\* submarinercr.Ensure: the resource holds the spec, or an error and the resource as it was
SubmarinerEnsureResults(c, spec) ==
    {[err |-> NoError, cluster |-> [c EXCEPT !.submariner = [isNil |-> FALSE, Spec |-> spec]]]}
    \cup {[err |-> e, cluster |-> c] : e \in ApiErrors}

----------------------------------------------------------------------------
(* pkg/deploy: Submariner. *)

DeployIdle ==
    /\ options = DefaultOptions
    /\ brokerInfo = [none |-> TRUE]
    /\ brokerSecret = [none |-> TRUE]
    /\ netconfig = [none |-> TRUE]
    /\ repositoryInfo = [none |-> TRUE]
    /\ pc = "idle"
    /\ pskSecret = NilPointer
    /\ submarinerSpec = NilPointer
    /\ ret = [pending |-> TRUE]
    /\ calls = <<>>
    /\ reports = <<>>
    /\ cluster = [pskSecret |-> NilPointer, submariner |-> NilPointer]

DeployInit ==
    /\ options \in OptionsSet
    /\ brokerInfo \in BrokerInfos
    /\ brokerSecret \in BrokerSecrets
    /\ netconfig \in NetConfigs
    /\ repositoryInfo \in RepositoryInfos
    /\ pc = "start"
    /\ pskSecret = NilPointer
    /\ submarinerSpec = NilPointer
    /\ ret = [pending |-> TRUE]
    /\ calls = <<>>
    /\ reports = <<>>
    /\ cluster \in Clusters

\* a slip: the error of secret.Ensure is not looked at
PSKSecretFailedIgnored(err) == FALSE

\* if err != nil, after secret.Ensure
PSKSecretFailed(err) == ~err.isNil

\* a slip: the error of submarinercr.Ensure is not looked at
DeploymentFailedIgnored(err) == FALSE

\* if err != nil, after submarinercr.Ensure
DeploymentFailed(err) == ~err.isNil

\* Submariner up to its first return: secret.Ensure and the test of its error
SubmarinerEnsureSecret ==
    /\ pc = "start"
    /\ \E res \in SecretEnsureResults(cluster, brokerInfo.IPSecPSK) :
        /\ calls' = Append(calls, [fn |-> "secret.Ensure", namespace |-> OperatorNamespace,
                                   arg |-> brokerInfo.IPSecPSK, err |-> res.err])
        /\ cluster' = res.cluster
        /\ pskSecret' = res.secret
        /\ IF PSKSecretFailed(res.err)
           THEN /\ reports' = ReportError(reports, res.err,
                                          "Error creating PSK secret for cluster")
                /\ ret' = StatusError(res.err, "Error creating PSK secret for cluster")
                /\ pc' = "done"
           ELSE /\ pc' = "populate"
                /\ UNCHANGED <<reports, ret>>
    /\ UNCHANGED <<deployArgs, submarinerSpec, helperVars, cleanupVars, brokerVars>>

\* Submariner from there on: populateSubmarinerSpec, submarinercr.Ensure and the return
SubmarinerEnsureCR ==
    /\ pc = "populate"
    /\ LET spec == populateSubmarinerSpec(options, brokerInfo, brokerSecret, pskSecret,
                                          netconfig, repositoryInfo)
       IN  /\ submarinerSpec' = spec
           /\ \E res \in SubmarinerEnsureResults(cluster, spec) :
                /\ calls' = Append(calls, [fn |-> "submarinercr.Ensure",
                                           namespace |-> OperatorNamespace,
                                           arg |-> spec, err |-> res.err])
                /\ cluster' = res.cluster
                /\ IF DeploymentFailed(res.err)
                   THEN /\ reports' = ReportError(reports, res.err,
                                                  "Submariner deployment failed")
                        /\ ret' = StatusError(res.err, "Submariner deployment failed")
                   ELSE /\ ret' = NoError
                        /\ UNCHANGED reports
    /\ pc' = "done"
    /\ UNCHANGED <<deployArgs, pskSecret, helperVars, cleanupVars, brokerVars>>

Next ==
    \/ SubmarinerEnsureSecret
    \/ SubmarinerEnsureCR

Init == DeployInit /\ HelperIdle /\ CleanupIdle /\ BrokerIdle

Spec == Init /\ [][Next]_vars

----------------------------------------------------------------------------
(* The helpers applied to every string within the bound. *)

HelperTypeOK ==
    /\ helperPc \in {"idle", "start", "removeSchemaPrefix", "getCustomCoreDNSParams"}
    /\ helperArg \in Strs

HelperInit ==
    /\ helperPc = "start"
    /\ helperArg \in Strs
    /\ helperRet = [none |-> TRUE]

InitHelpers == HelperInit /\ DeployIdle /\ CleanupIdle /\ BrokerIdle

CallRemoveSchemaPrefix ==
    /\ helperPc = "start"
    /\ helperPc' = "removeSchemaPrefix"
    /\ helperRet' = [brokerURL |-> removeSchemaPrefix(helperArg)]
    /\ UNCHANGED <<helperArg, deployVars, cleanupVars, brokerVars>>

CallGetCustomCoreDNSParams ==
    /\ helperPc = "start"
    /\ helperPc' = "getCustomCoreDNSParams"
    /\ helperRet' = getCustomCoreDNSParams(helperArg)
    /\ UNCHANGED <<helperArg, deployVars, cleanupVars, brokerVars>>

HelperNext ==
    \/ CallRemoveSchemaPrefix
    \/ CallGetCustomCoreDNSParams

SpecHelpers == InitHelpers /\ [][HelperNext]_vars

----------------------------------------------------------------------------
(* pkg/cloud/cleanup: GenericCluster. *)

CleanupMessage == "Failed to cleanup generic K8s cluster"

ClusterInfos == [Name : {"cluster-a", "cluster-b"}]

\* the sequences over S of length at most n
SeqsUpTo(S, n) == UNION {[1..k -> S] : k \in 0..n}

\* The code RunOnCluster runs is handed the reporter and may call it as it likes.
CalleeReports ==
    SeqsUpTo([by : {"callee"}, method : {"Start", "Success", "Failure", "Error", "End"}],
             MaxCalleeReports)

\* what gwDeployer.Cleanup may return
CleanupResults == {NoError} \cup ApiErrors

\* the function literal handed to RunOnCluster: the result of gwDeployer.Cleanup, as it is
CleanupCallback(cleanupResult) == cleanupResult

\* generic.RunOnCluster: it fails before it has a gateway deployer, or it calls the
\* function once with one and returns what the function returned
RunOnClusterResults ==
    {[err |-> NewError("no REST mapper"), reports |-> rs, cleanup |-> <<>>] :
        rs \in CalleeReports}
    \cup {[err |-> CleanupCallback(r), reports |-> rs, cleanup |-> <<r>>] :
            r \in CleanupResults, rs \in CalleeReports}

CleanupInit ==
    /\ clusterInfo \in ClusterInfos
    /\ cleanupPc = "start"
    /\ cleanupErr = [pending |-> TRUE]
    /\ cleanupRet = [pending |-> TRUE]
    /\ statusLog = <<>>
    /\ cleanupCalls = <<>>

\* GenericCluster up to the return of generic.RunOnCluster
GenericClusterRun ==
    /\ cleanupPc = "start"
    /\ \E res \in RunOnClusterResults :
        /\ cleanupErr' = res.err
        /\ statusLog' = statusLog \o res.reports
        /\ cleanupCalls' = cleanupCalls \o res.cleanup
    /\ cleanupPc' = "ran"
    /\ UNCHANGED <<clusterInfo, cleanupRet, helperVars, deployVars, brokerVars>>

\* a slip: status.End is called where it stands, not deferred
GenericClusterReturnEndFirst ==
    /\ cleanupPc = "ran"
    /\ statusLog' = statusLog \o
            <<[by |-> "GenericCluster", method |-> "End"],
              [by |-> "GenericCluster", method |-> "Error", err |-> cleanupErr,
               message |-> CleanupMessage]>>
    /\ cleanupRet' = StatusError(cleanupErr, CleanupMessage)
    /\ cleanupPc' = "done"
    /\ UNCHANGED <<clusterInfo, cleanupErr, cleanupCalls, helperVars, deployVars, brokerVars>>

\* GenericCluster from there on: status.Error, the deferred status.End, the return
GenericClusterReturn ==
    /\ cleanupPc = "ran"
    /\ statusLog' = statusLog \o
            <<[by |-> "GenericCluster", method |-> "Error", err |-> cleanupErr,
               message |-> CleanupMessage],
              [by |-> "GenericCluster", method |-> "End"]>>
    /\ cleanupRet' = StatusError(cleanupErr, CleanupMessage)
    /\ cleanupPc' = "done"
    /\ UNCHANGED <<clusterInfo, cleanupErr, cleanupCalls, helperVars, deployVars, brokerVars>>

CleanupNext ==
    \/ GenericClusterRun
    \/ GenericClusterReturn

InitCleanup == CleanupInit /\ HelperIdle /\ DeployIdle /\ BrokerIdle

SpecCleanup == InitCleanup /\ [][CleanupNext]_vars

----------------------------------------------------------------------------
(* The generated client of the Broker resource. *)

Namespaces == {"submariner-k8s-broker", "other"}

BrokerNames == {"broker-1", "broker-2"}

\* the Broker objects handed to the client: an object carries a namespace of its own
BrokerObjects == [Name : BrokerNames, Namespace : Namespaces]

\* v1.ListOptions: TimeoutSeconds is a pointer
ListOptionsSet ==
    [Watch : BOOLEAN, TimeoutSeconds : {NilPointer, [isNil |-> FALSE, value |-> 5]}]

\* the subresources a Patch may name
SubresourceLists == {<<>>, <<"status">>}

\* rest.Interface.Get, Post, Put, Delete, Patch: a request with nothing set yet
NewRequest(verb) ==
    [verb |-> verb, namespace |-> "", resource |-> "", name |-> "",
     subresource |-> <<>>, params |-> NilPointer, timeout |-> 0, body |-> NilPointer]

SetNamespace(r, ns) == [r EXCEPT !.namespace = ns]

SetResource(r, resource) == [r EXCEPT !.resource = resource]

SetName(r, name) == [r EXCEPT !.name = name]

SetSubResource(r, subresources) == [r EXCEPT !.subresource = subresources]

VersionedParams(r, opts) == [r EXCEPT !.params = [isNil |-> FALSE, opts |-> opts]]

SetTimeout(r, d) == [r EXCEPT !.timeout = d]

SetBody(r, obj) == [r EXCEPT !.body = [isNil |-> FALSE, obj |-> obj]]

\* time.Duration(*opts.TimeoutSeconds) * time.Second, 0 when TimeoutSeconds is nil;
\* durations are counted in seconds here
TimeoutOf(opts) ==
    IF ~opts.TimeoutSeconds.isNil THEN opts.TimeoutSeconds.value ELSE 0

GetRequest(ns, name, opts) ==
    VersionedParams(SetName(SetResource(SetNamespace(NewRequest("GET"), ns), "brokers"),
                            name), opts)

ListRequest(ns, opts) ==
    SetTimeout(VersionedParams(SetResource(SetNamespace(NewRequest("GET"), ns), "brokers"),
                               opts), TimeoutOf(opts))

WatchRequest(ns, opts) ==
    LET watching == [opts EXCEPT !.Watch = TRUE]
    IN  SetTimeout(VersionedParams(SetResource(SetNamespace(NewRequest("GET"), ns),
                                               "brokers"), watching), TimeoutOf(opts))

CreateRequest(ns, broker) ==
    SetBody(SetResource(SetNamespace(NewRequest("POST"), ns), "brokers"), broker)

\* a slip: the request is scoped to the object's namespace, not the client's
UpdateRequestOfObject(ns, broker) ==
    SetBody(SetName(SetResource(SetNamespace(NewRequest("PUT"), broker.Namespace),
                                "brokers"), broker.Name), broker)

UpdateRequest(ns, broker) ==
    SetBody(SetName(SetResource(SetNamespace(NewRequest("PUT"), ns), "brokers"),
                    broker.Name), broker)

UpdateStatusRequest(ns, broker) ==
    SetBody(SetSubResource(SetName(SetResource(SetNamespace(NewRequest("PUT"), ns),
                                               "brokers"), broker.Name), <<"status">>),
            broker)

DeleteRequest(ns, name, opts) ==
    SetBody(SetName(SetResource(SetNamespace(NewRequest("DELETE"), ns), "brokers"), name),
            opts)

DeleteCollectionRequest(ns, opts, listOptions) ==
    SetBody(SetTimeout(VersionedParams(SetResource(SetNamespace(NewRequest("DELETE"), ns),
                                                   "brokers"), listOptions),
                       TimeoutOf(listOptions)), opts)

PatchRequest(ns, name, data, subresources) ==
    SetBody(SetName(SetSubResource(SetResource(SetNamespace(NewRequest("PATCH"), ns),
                                               "brokers"), subresources), name), data)

\* newBrokers
BrokerInit ==
    /\ brokersNs \in Namespaces
    /\ requests = <<>>

\* Do() or Watch(): the request goes out, once
Issue(call, args, request) ==
    /\ Len(requests) < MaxRequests
    /\ requests' = Append(requests, [call |-> call, args |-> args, request |-> request])
    /\ UNCHANGED <<brokersNs, helperVars, deployVars, cleanupVars>>

Get == \E name \in BrokerNames, opts \in {"GetOptions"} :
    Issue("Get", [name |-> name], GetRequest(brokersNs, name, opts))

List == \E opts \in ListOptionsSet :
    Issue("List", [opts |-> opts], ListRequest(brokersNs, opts))

Watch == \E opts \in ListOptionsSet :
    Issue("Watch", [opts |-> opts], WatchRequest(brokersNs, opts))

Create == \E broker \in BrokerObjects :
    Issue("Create", [broker |-> broker], CreateRequest(brokersNs, broker))

Update == \E broker \in BrokerObjects :
    Issue("Update", [broker |-> broker], UpdateRequest(brokersNs, broker))

UpdateStatus == \E broker \in BrokerObjects :
    Issue("UpdateStatus", [broker |-> broker], UpdateStatusRequest(brokersNs, broker))

Delete == \E name \in BrokerNames, opts \in {"DeleteOptions"} :
    Issue("Delete", [name |-> name], DeleteRequest(brokersNs, name, opts))

DeleteCollection == \E opts \in {"DeleteOptions"}, listOptions \in ListOptionsSet :
    Issue("DeleteCollection", [listOptions |-> listOptions],
          DeleteCollectionRequest(brokersNs, opts, listOptions))

Patch == \E name \in BrokerNames, subresources \in SubresourceLists :
    Issue("Patch", [name |-> name, subresources |-> subresources],
          PatchRequest(brokersNs, name, "patch", subresources))

BrokerNext ==
    \/ Get
    \/ List
    \/ Watch
    \/ Create
    \/ Update
    \/ UpdateStatus
    \/ Delete
    \/ DeleteCollection
    \/ Patch

InitBroker == BrokerInit /\ HelperIdle /\ DeployIdle /\ CleanupIdle

SpecBroker == InitBroker /\ [][BrokerNext]_vars

----------------------------------------------------------------------------
(* Properties of the string helpers, under SpecHelpers. *)

\* "://" stands in s at the 1-based position i
SchemaAt(s, i) ==
    /\ i + 2 <= Len(s)
    /\ s[i] = ":"
    /\ s[i + 1] = "/"
    /\ s[i + 2] = "/"

ContainsSchema(s) == \E i \in 1..Len(s) : SchemaAt(s, i)

\* the 1-based positions of "/" in s
SlashPositions(s) == {i \in 1..Len(s) : s[i] = "/"}

\* C1: when the input contains "://", removeSchemaPrefix returns exactly what
\* follows the first occurrence of "://".
C1_StripsThroughFirstSeparator ==
    helperPc = "removeSchemaPrefix" =>
        \A i \in 1..Len(helperArg) :
            (SchemaAt(helperArg, i) /\ \A j \in 1..(i - 1) : ~SchemaAt(helperArg, j))
                => helperRet.brokerURL = SubSeq(helperArg, i + 3, Len(helperArg))

\* "://://" has been stripped to "://": only the first occurrence is cut
C1_Witness ==
    /\ helperPc = "removeSchemaPrefix"
    /\ helperArg = <<":", "/", "/", ":", "/", "/">>
    /\ helperRet.brokerURL = <<":", "/", "/">>

\* C2: when the input does not contain "://", removeSchemaPrefix returns it unchanged.
C2_UnchangedWithoutSeparator ==
    (helperPc = "removeSchemaPrefix" /\ ~ContainsSchema(helperArg))
        => helperRet.brokerURL = helperArg

\* "a//:b", which holds ":" and "//" but not "://", has come back as it was
C2_Witness ==
    /\ helperPc = "removeSchemaPrefix"
    /\ helperArg = <<"a", "/", "/", ":", "b">>
    /\ helperRet.brokerURL = helperArg

\* C3: for ns + "/" + name with no "/" in ns or name (ns or name may be empty),
\* getCustomCoreDNSParams returns namespace = ns and name = name.
C3_SplitsNamespaceAndName ==
    helperPc = "getCustomCoreDNSParams" =>
        \A i \in 1..Len(helperArg) :
            SlashPositions(helperArg) = {i} =>
                /\ helperRet.namespace = SubSeq(helperArg, 1, i - 1)
                /\ helperRet.name = SubSeq(helperArg, i + 1, Len(helperArg))

\* "ab/ba" has been split into "ab" and "ba"
C3_Witness ==
    /\ helperPc = "getCustomCoreDNSParams"
    /\ helperArg = <<"a", "b", "/", "b", "a">>
    /\ helperRet = [namespace |-> <<"a", "b">>, name |-> <<"b", "a">>]

\* C4: for an input with no "/", the empty one included, getCustomCoreDNSParams
\* returns an empty namespace and the whole input as the name.
C4_NameAloneWithoutSlash ==
    (helperPc = "getCustomCoreDNSParams" /\ SlashPositions(helperArg) = {})
        => /\ helperRet.namespace = <<>>
           /\ helperRet.name = helperArg

\* "ab" has come back as the name, with an empty namespace
C4_Witness ==
    /\ helperPc = "getCustomCoreDNSParams"
    /\ helperArg = <<"a", "b">>
    /\ helperRet = [namespace |-> <<>>, name |-> <<"a", "b">>]

\* the least element of a non-empty set of positions
First(S) == CHOOSE i \in S : \A j \in S : i <= j

\* C11: for an input with two or more "/", getCustomCoreDNSParams returns the text
\* before the first "/" as the namespace and the text between the first and the
\* second "/" as the name; what follows the second "/" is dropped, so
\* namespace + "/" + name is a proper prefix of the input and not the input.
C11_DropsAfterSecondSlash ==
    (helperPc = "getCustomCoreDNSParams" /\ Cardinality(SlashPositions(helperArg)) >= 2) =>
        LET first == First(SlashPositions(helperArg))
            second == First(SlashPositions(helperArg) \ {first})
            rebuilt == helperRet.namespace \o <<"/">> \o helperRet.name
        IN  /\ helperRet.namespace = SubSeq(helperArg, 1, first - 1)
            /\ helperRet.name = SubSeq(helperArg, first + 1, second - 1)
            /\ rebuilt = SubSeq(helperArg, 1, second - 1)
            /\ rebuilt # helperArg

\* "a/b/ab" has given namespace "a" and name "b": "/ab" is gone
C11_Witness ==
    /\ helperPc = "getCustomCoreDNSParams"
    /\ helperArg = <<"a", "/", "b", "/", "a", "b">>
    /\ helperRet = [namespace |-> <<"a">>, name |-> <<"b">>]

----------------------------------------------------------------------------
(* Properties of Submariner and populateSubmarinerSpec, under Spec. *)

PSKSecretMessage == "Error creating PSK secret for cluster"

DeploymentMessage == "Submariner deployment failed"

\* the indices of the calls to fn in the log
CallsTo(fn) == {i \in 1..Len(calls) : calls[i].fn = fn}

\* secret.Ensure was called and failed
SecretEnsureFailed == Len(calls) >= 1 /\ calls[1].fn = "secret.Ensure" /\ ~calls[1].err.isNil

\* submarinercr.Ensure was called and failed
SubmarinerEnsureFailed ==
    Len(calls) >= 2 /\ calls[2].fn = "submarinercr.Ensure" /\ ~calls[2].err.isNil

C5_Returned ==
    SecretEnsureFailed =>
        /\ pc = "done"
        /\ ~ret.isNil
        /\ ret = StatusError(calls[1].err, PSKSecretMessage)
        /\ reports = <<[method |-> "Error", err |-> calls[1].err,
                        message |-> PSKSecretMessage]>>
        /\ CallsTo("submarinercr.Ensure") = {}

C5_ResourceKept == SecretEnsureFailed' => cluster'.submariner = cluster.submariner

\* C5: when secret.Ensure fails, Submariner returns the non-nil result of
\* status.Error(err, "Error creating PSK secret for cluster"), submarinercr.Ensure is
\* not called, and the Submariner resource is as it was.
C5_SecretFailureStops == []C5_Returned /\ [][C5_ResourceKept]_vars

\* secret.Ensure has failed over a cluster that already held a Submariner resource
C5_Witness ==
    /\ SecretEnsureFailed
    /\ pc = "done"
    /\ ~cluster.submariner.isNil
    /\ ret.msg = PSKSecretMessage

\* C6: no retry and no rollback: one call of secret.Ensure, at most one of
\* submarinercr.Ensure and only after secret.Ensure succeeded; when submarinercr.Ensure
\* fails the error comes back wrapped with "Submariner deployment failed" and the
\* ensured PSK secret stays; nil is returned only when both calls succeeded.
C6_NoRetryNoRollback ==
    /\ Cardinality(CallsTo("secret.Ensure")) <= 1
    /\ pc \in {"populate", "done"} => CallsTo("secret.Ensure") = {1}
    /\ CallsTo("submarinercr.Ensure") \subseteq {2}
    /\ 2 \in CallsTo("submarinercr.Ensure") => (1 \in CallsTo("secret.Ensure") /\ calls[1].err.isNil)
    /\ SubmarinerEnsureFailed =>
        /\ pc = "done"
        /\ ret = [isNil |-> FALSE, msg |-> DeploymentMessage, cause |-> calls[2].err]
        /\ ~cluster.pskSecret.isNil
        /\ cluster.pskSecret = pskSecret
    /\ (pc = "done" /\ ret.isNil) =>
        /\ Len(calls) = 2
        /\ calls[1].fn = "secret.Ensure" /\ calls[1].err.isNil
        /\ calls[2].fn = "submarinercr.Ensure" /\ calls[2].err.isNil

\* submarinercr.Ensure has failed after secret.Ensure put the secret in the cluster
C6_Witness ==
    /\ SubmarinerEnsureFailed
    /\ pc = "done"
    /\ ret.msg = DeploymentMessage
    /\ cluster.pskSecret.Name = "submariner-ipsec-psk-2"

\* populateSubmarinerSpec has run: its result was handed to submarinercr.Ensure
SpecPopulated == Len(calls) = 2 /\ calls[2].fn = "submarinercr.Ensure"

\* C7: the spec copies each option into its field, takes BrokerK8sApiServer from
\* removeSchemaPrefix(brokerInfo.BrokerURL), CeIPSecPSKSecret from the secret
\* secret.Ensure returned, BrokerK8sSecret from the broker secret, and always has
\* Broker = "k8s" and Namespace = the operator namespace.
C7_FieldsCopied ==
    SpecPopulated =>
        /\ calls[2].arg = submarinerSpec
        /\ submarinerSpec.ClusterID = options.ClusterID
        /\ submarinerSpec.ServiceCIDR = options.ServiceCIDR
        /\ submarinerSpec.ClusterCIDR = options.ClusterCIDR
        /\ submarinerSpec.CableDriver = options.CableDriver
        /\ submarinerSpec.CeIPSecNATTPort = options.NATTPort
        /\ submarinerSpec.CeIPSecDebug = options.IPSecDebug
        /\ submarinerSpec.CeIPSecForceUDPEncaps = options.ForceUDPEncaps
        /\ submarinerSpec.CeIPSecPreferredServer = options.PreferredServer
        /\ submarinerSpec.Debug = options.SubmarinerDebug
        /\ submarinerSpec.NatEnabled = options.NATTraversal
        /\ submarinerSpec.AirGappedDeployment = options.AirGappedDeployment
        /\ submarinerSpec.LoadBalancerEnabled = options.LoadBalancerEnabled
        /\ submarinerSpec.ConnectionHealthCheck =
             [Enabled            |-> options.HealthCheckEnabled,
              IntervalSeconds    |-> options.HealthCheckInterval,
              MaxPacketLossCount |-> options.HealthCheckMaxPacketLossCount]
        /\ submarinerSpec.BrokerK8sApiServer = removeSchemaPrefix(brokerInfo.BrokerURL)
        /\ ~ContainsSchema(brokerInfo.BrokerURL)
             => submarinerSpec.BrokerK8sApiServer = brokerInfo.BrokerURL
        /\ calls[1].err.isNil /\ submarinerSpec.CeIPSecPSKSecret = cluster.pskSecret.Name
        /\ submarinerSpec.BrokerK8sSecret = brokerSecret.Name
        /\ submarinerSpec.Broker = "k8s"
        /\ submarinerSpec.Namespace = OperatorNamespace

\* a spec built from options whose two debug flags differ, a broker URL with a
\* schema and the second of the secret names
C7_Witness ==
    /\ SpecPopulated
    /\ options.IPSecDebug /\ ~options.SubmarinerDebug
    /\ submarinerSpec.CeIPSecDebug /\ ~submarinerSpec.Debug
    /\ brokerInfo.BrokerURL = <<"a", ":", "/", "/", "b">>
    /\ submarinerSpec.BrokerK8sApiServer = <<"b">>
    /\ submarinerSpec.CeIPSecPSKSecret = "submariner-ipsec-psk-2"

\* C8: CoreDNSCustomConfig is non-nil exactly when the option is non-empty, and then
\* holds the two results of getCustomCoreDNSParams; GlobalCIDR is netconfig's;
\* CustomDomains is the option's list when that has an element and nil otherwise.
C8_OptionalFields ==
    SpecPopulated =>
        /\ ~submarinerSpec.CoreDNSCustomConfig.isNil <=> options.CoreDNSCustomConfigMap # <<>>
        /\ ~submarinerSpec.CoreDNSCustomConfig.isNil =>
            /\ submarinerSpec.CoreDNSCustomConfig.Namespace =
                 getCustomCoreDNSParams(options.CoreDNSCustomConfigMap).namespace
            /\ submarinerSpec.CoreDNSCustomConfig.ConfigMapName =
                 getCustomCoreDNSParams(options.CoreDNSCustomConfigMap).name
        /\ submarinerSpec.GlobalCIDR = netconfig.GlobalCIDR
        /\ IF Len(options.CustomDomains.elems) >= 1
           THEN submarinerSpec.CustomDomains = options.CustomDomains
           ELSE submarinerSpec.CustomDomains.isNil

\* a spec built from a namespace/name reference, a global CIDR and an empty list
\* of domains that is not nil
C8_Witness ==
    /\ SpecPopulated
    /\ options.CoreDNSCustomConfigMap = <<"a", "/", "b">>
    /\ submarinerSpec.CoreDNSCustomConfig =
         [isNil |-> FALSE, ConfigMapName |-> <<"b">>, Namespace |-> <<"a">>]
    /\ netconfig.GlobalCIDR = "242.0.0.0/16"
    /\ submarinerSpec.GlobalCIDR = "242.0.0.0/16"
    /\ options.CustomDomains = MakeSlice(<<>>)
    /\ submarinerSpec.CustomDomains.isNil

----------------------------------------------------------------------------
(* Properties of GenericCluster, under SpecCleanup. *)

\* the calls GenericCluster itself made on the reporter, in order
OwnReports == SelectSeq(statusLog, LAMBDA e : e.by = "GenericCluster")

\* C9: in every invocation GenericCluster calls status.Error once, with the error of
\* RunOnCluster and "Failed to cleanup generic K8s cluster", and returns its result;
\* it calls status.End once, after that, as the last call on the reporter; the error
\* of gwDeployer.Cleanup reaches status.Error unwrapped and Cleanup runs at most once.
C9_PureDelegation ==
    /\ cleanupPc \in {"start", "ran"} => OwnReports = <<>>
    /\ Len(cleanupCalls) <= 1
    /\ (cleanupPc \in {"ran", "done"} /\ Len(cleanupCalls) = 1) => cleanupErr = cleanupCalls[1]
    /\ cleanupPc = "done" =>
        /\ OwnReports = <<[by |-> "GenericCluster", method |-> "Error",
                           err |-> cleanupErr, message |-> CleanupMessage],
                          [by |-> "GenericCluster", method |-> "End"]>>
        /\ statusLog[Len(statusLog)] = [by |-> "GenericCluster", method |-> "End"]
        /\ IF cleanupErr.isNil
           THEN cleanupRet = NoError
           ELSE cleanupRet = [isNil |-> FALSE, msg |-> CleanupMessage, cause |-> cleanupErr]

\* GenericCluster has returned the wrapped error of a Cleanup that had itself
\* ended the reporter
C9_Witness ==
    /\ cleanupPc = "done"
    /\ cleanupCalls = <<NewError("timeout")>>
    /\ cleanupRet.cause = NewError("timeout")
    /\ Len(statusLog) = 4
    /\ statusLog[2] = [by |-> "callee", method |-> "End"]

----------------------------------------------------------------------------
(* Properties of the brokers client, under SpecBroker. *)

C10_Scoped ==
    \A i \in 1..Len(requests) :
        LET call == requests[i].call
            args == requests[i].args
            r == requests[i].request
        IN  /\ r.namespace = brokersNs
            /\ r.resource = "brokers"
            /\ call = "Create" => r.verb = "POST"
            /\ call \in {"Update", "UpdateStatus"} =>
                (r.verb = "PUT" /\ r.name = args.broker.Name)
            /\ call = "UpdateStatus" => r.subresource = <<"status">>
            /\ call \in {"Delete", "DeleteCollection"} => r.verb = "DELETE"
            /\ call \in {"Get", "List", "Watch"} => r.verb = "GET"
            /\ call = "Watch" => r.params.opts.Watch = TRUE

C10_OneRequest ==
    /\ Len(requests') = Len(requests) + 1
    /\ SubSeq(requests', 1, Len(requests)) = requests
    /\ brokersNs' = brokersNs

\* C10: every verb of the brokers client issues exactly one request, in the client's
\* namespace and on the resource "brokers": POST for Create, PUT to the object's name
\* for Update and UpdateStatus (the latter on "status"), DELETE for Delete and
\* DeleteCollection, GET for Get, List and Watch, and Watch = true for Watch.
C10_VerbsScoped == []C10_Scoped /\ [][C10_OneRequest]_vars

\* an Update of an object of another namespace, then a Watch whose options came
\* with Watch = false
C10_Witness ==
    /\ Len(requests) = 2
    /\ requests[1].call = "Update"
    /\ requests[1].args.broker.Namespace # brokersNs
    /\ requests[1].request.namespace = brokersNs
    /\ requests[2].call = "Watch"
    /\ ~requests[2].args.opts.Watch
    /\ requests[2].request.params.opts.Watch

=============================================================================
